---- MODULE Spec2Model ----
(***************************************************************************)
(* Model of the host-metrics sampling agent: the samplers of metrics.c,    *)
(* the gauge updaters of expose_metrics.c and the sampling loop of main.c. *)
(* The sampling thread is a state machine whose steps are the calls it     *)
(* makes: one step reads a source and computes the values (the get_*       *)
(* call of an update_*_gauge), then pthread_mutex_lock, one step per       *)
(* prom_gauge_set, and pthread_mutex_unlock.  The content of a /proc file  *)
(* or of the FIFO at the moment it is read is an input of the step.        *)
(***************************************************************************)
EXTENDS Integers, Sequences, FiniteSets, TLC

(***************************************************************************)
(* Bounds of the model.                                                    *)
(***************************************************************************)
\* total number of CPU ticks a sample of /proc/stat may hold
MaxTicks == 2
\* width the unsigned long long counters are scaled down to
WordBits == 16
\* largest kB figure of a /proc/meminfo line
MaxKb == 2
\* longest enabled-metric list
MaxEnabled == 2
\* lines of /proc/diskstats, and lines of /proc/net/dev after the headers
MaxLines == 2
\* requests the exposition thread answers
MaxPasses == 1

Modulus == 2 ^ WordBits

(***************************************************************************)
(* double values are exact rationals n/d in lowest terms, d > 0.           *)
(***************************************************************************)
RECURSIVE GCD(_, _)
GCD(a, b) == IF b = 0 THEN a ELSE GCD(b, a % b)

Abs(x) == IF x < 0 THEN -x ELSE x

Rat(n, d) ==
    LET g == GCD(Abs(n), Abs(d))
        s == IF d < 0 THEN -1 ELSE 1
    IN  [n |-> (s * n) \div g, d |-> (s * d) \div g]

RatInt(k) == [n |-> k, d |-> 1]
RatSub(a, b) == Rat(a.n * b.d - b.n * a.d, a.d * b.d)
RatMul(a, b) == Rat(a.n * b.n, a.d * b.d)
RatDiv(a, b) == Rat(a.n * b.d, a.d * b.n)
RatLe(a, b) == a.n * b.d <= b.n * a.d
RatGe0(a) == a.n >= 0
RatGt0(a) == a.n > 0

\* the -1.0 / -1 every sampler returns on error
ErrVal == RatInt(-1)
Zero == RatInt(0)
Hundred == RatInt(100)

(***************************************************************************)
(* /proc/stat.  A file is [opened, cpu, procs_running, ctxt]: whether      *)
(* fopen succeeds, the numbers that follow "cpu" on the first line (fewer  *)
(* than 8 when the line is short or is not the cpu line), and the numbers  *)
(* of the procs_running and ctxt lines (<<>> when the line is absent).     *)
(***************************************************************************)
CpuFields == <<"user", "nice", "system", "idle", "iowait", "irq", "softirq", "steal">>

Sample(q) == [user |-> q[1], nice |-> q[2], system |-> q[3], idle |-> q[4],
              iowait |-> q[5], irq |-> q[6], softirq |-> q[7], steal |-> q[8]]

\* static unsigned long long prev_user = 0, ...
ZeroSample == Sample(<<0, 0, 0, 0, 0, 0, 0, 0>>)

Wrap(x) == x % Modulus

IdleTotalMutant(s) == Wrap(s.idle)
\* idle_total = idle + iowait
IdleTotal(s) == Wrap(s.idle + s.iowait)

\* non_idle = user + nice + system + irq + softirq + steal
NonIdle(s) == Wrap(s.user + s.nice + s.system + s.irq + s.softirq + s.steal)

\* total = idle_total + non_idle
Total(s) == Wrap(IdleTotal(s) + NonIdle(s))

\* totald = total - prev_total; idled = idle_total - prev_idle_total
Totald(p, c) == Wrap(Total(c) - Total(p))
Idled(p, c) == Wrap(IdleTotal(c) - IdleTotal(p))

CpuPercentMutant(p, c) == Rat(Wrap(Totald(p, c) + Idled(p, c)) * 100, Totald(p, c))
\* cpu_usage_percent = ((double)(totald - idled) / (double)totald) * 100.0
CpuPercent(p, c) == Rat(Wrap(Totald(p, c) - Idled(p, c)) * 100, Totald(p, c))

FirstCallMutant(p, f) ==
    IF (~f.opened) \/ Len(f.cpu) < 8 \/ p = ZeroSample
    THEN [ret |-> ErrVal,
          prev |-> IF f.opened /\ Len(f.cpu) >= 8 THEN Sample(f.cpu) ELSE p,
          stored |-> f.opened /\ Len(f.cpu) >= 8]
    ELSE IF Totald(p, Sample(f.cpu)) = 0
    THEN [ret |-> ErrVal, prev |-> p, stored |-> FALSE]
    ELSE [ret |-> CpuPercent(p, Sample(f.cpu)), prev |-> Sample(f.cpu), stored |-> TRUE]
ZeroDeltaMutant(p, f) ==
    IF (~f.opened) \/ Len(f.cpu) < 8
    THEN [ret |-> ErrVal, prev |-> p, stored |-> FALSE]
    ELSE IF Totald(p, Sample(f.cpu)) = 0
    THEN [ret |-> Zero, prev |-> Sample(f.cpu), stored |-> TRUE]
    ELSE [ret |-> CpuPercent(p, Sample(f.cpu)), prev |-> Sample(f.cpu), stored |-> TRUE]
\* double get_cpu_usage(void): the value returned, the static prev_* after
\* the call, and whether the call stored the sample it read
get_cpu_usage(p, f) ==
    IF ~f.opened
    THEN [ret |-> ErrVal, prev |-> p, stored |-> FALSE]
    ELSE IF Len(f.cpu) < 8
    THEN [ret |-> ErrVal, prev |-> p, stored |-> FALSE]
    ELSE IF Totald(p, Sample(f.cpu)) = 0
    THEN [ret |-> ErrVal, prev |-> p, stored |-> FALSE]
    ELSE [ret |-> CpuPercent(p, Sample(f.cpu)), prev |-> Sample(f.cpu), stored |-> TRUE]

(***************************************************************************)
(* /proc/meminfo.  A file is [opened, MemTotal, MemAvailable]: the kB      *)
(* figure of each line, <<>> when the line is absent.                      *)
(***************************************************************************)
KbPerMb == 1024

\* the value sscanf leaves in the zero-initialised local after the scan
ScannedKb(line) == IF line = <<>> THEN 0 ELSE line[1]

\* double get_memory_total(void)
get_memory_total(f) ==
    IF ~f.opened THEN ErrVal
    ELSE IF ScannedKb(f.MemTotal) = 0 THEN ErrVal
    ELSE Rat(ScannedKb(f.MemTotal), KbPerMb)

\* double get_memory_free(void)
get_memory_free(f) ==
    IF ~f.opened THEN ErrVal
    ELSE IF ScannedKb(f.MemAvailable) = 0 THEN ErrVal
    ELSE Rat(ScannedKb(f.MemAvailable), KbPerMb)

\* the body of get_memory_usage once both values are read
UsageOf(total_mem, free_mem) ==
    IF RatGt0(total_mem)
    THEN RatMul(RatDiv(RatSub(total_mem, free_mem), total_mem), Hundred)
    ELSE ErrVal

\* double get_memory_usage(void): ft is the file as get_memory_total reads
\* it, ff the file as get_memory_free reads it right after
get_memory_usage(ft, ff) == UsageOf(get_memory_total(ft), get_memory_free(ff))

\* double get_memory_used(void): get_memory_free is called first
get_memory_used(ff, ft) == RatSub(get_memory_total(ft), get_memory_free(ff))

(***************************************************************************)
(* Text tokens.  A token is a word, an unsigned integer or a real number;  *)
(* v is its numeric value (0 for a word).                                  *)
(***************************************************************************)
W(s) == [k |-> "word", s |-> s, v |-> Zero]
N(i) == [k |-> "int", s |-> "", v |-> RatInt(i)]
R(n, d) == [k |-> "real", s |-> "", v |-> Rat(n, d)]

\* strtoul(token, NULL, 10): the leading digits, 0 when there are none
strtoul(t) ==
    IF t.k = "int" THEN t.v.n
    ELSE IF t.k = "real" THEN t.v.n \div t.v.d
    ELSE 0

(***************************************************************************)
(* /proc/diskstats.  A file is [opened, lines]; a line is the sequence of  *)
(* its space-separated tokens, as strtok(buffer, " ") yields them.         *)
(***************************************************************************)
\* device_name = "sda": the words that contain it
ContainsDevice(t) == t.k = "word" /\ t.s \in {"sda", "sda1"}

\* strstr(buffer, device_name) != NULL
LineMatches(line) == \E p \in 1..Len(line) : ContainsDevice(line[p])

\* the first line strstr matches, 0 when none does
RECURSIVE FirstMatch(_, _)
FirstMatch(lines, from) ==
    IF from > Len(lines) THEN 0
    ELSE IF LineMatches(lines[from]) THEN from
    ELSE FirstMatch(lines, from + 1)

\* the 0-based field numbers the strtok loop tests
ReadTimeField == 4
WriteTimeField == 8
IoInProgressField == 9
IoTimeField == 10

\* the value a field of the struct holds after the strtok loop over `line`:
\* the token at 0-based position `field` when the line has one
FieldAfter(old, line, field) ==
    IF Len(line) > field THEN strtoul(line[field + 1]) ELSE old

DiskScanMutant(m, line) ==
    [read_time_ms   |-> FieldAfter(m.read_time_ms, line, WriteTimeField),
     write_time_ms  |-> FieldAfter(m.write_time_ms, line, ReadTimeField),
     io_in_progress |-> FieldAfter(m.io_in_progress, line, IoInProgressField),
     io_time_ms     |-> FieldAfter(m.io_time_ms, line, IoTimeField)]
\* the strtok loop of get_disk_metrics over the matching line
DiskScan(m, line) ==
    [read_time_ms   |-> FieldAfter(m.read_time_ms, line, ReadTimeField),
     write_time_ms  |-> FieldAfter(m.write_time_ms, line, WriteTimeField),
     io_in_progress |-> FieldAfter(m.io_in_progress, line, IoInProgressField),
     io_time_ms     |-> FieldAfter(m.io_time_ms, line, IoTimeField)]

\* int get_disk_metrics(DiskMetrics* metrics)
get_disk_metrics(m, f) ==
    IF ~f.opened THEN [ret |-> -1, metrics |-> m]
    ELSE IF FirstMatch(f.lines, 1) = 0 THEN [ret |-> -1, metrics |-> m]
    ELSE [ret |-> 0, metrics |-> DiskScan(m, f.lines[FirstMatch(f.lines, 1)])]

(***************************************************************************)
(* /proc/net/dev.  A file is [opened, lines]; a line is [name, toks]: the  *)
(* text strtok(buffer, ":") yields (the whole line when it has no colon)   *)
(* and the space-separated tokens after the colon.                         *)
(***************************************************************************)
\* tokens after the colon the walk dereferences: up to transmit drop
NetTokensNeeded == 12

\* the walk over one line passes a null token to strtoul
NetLineCrashes(line) == Len(line.toks) >= 1 /\ Len(line.toks) < NetTokensNeeded

NetLineMutant(m, line) ==
    IF m.interface # "" THEN m
    ELSE IF line.toks = <<>> THEN [m EXCEPT !.interface = line.name]
    ELSE [interface        |-> line.name,
          receive_bytes    |-> strtoul(line.toks[1]),
          receive_errors   |-> strtoul(line.toks[3]),
          receive_dropped  |-> strtoul(line.toks[4]),
          transmit_bytes   |-> strtoul(line.toks[9]),
          transmit_errors  |-> strtoul(line.toks[11]),
          transmit_dropped |-> strtoul(line.toks[12])]
\* the body of the while loop for one line past the headers, when the walk
\* meets no null token
NetLine(m, line) ==
    IF line.toks = <<>> THEN [m EXCEPT !.interface = line.name]
    ELSE [interface        |-> line.name,
          receive_bytes    |-> strtoul(line.toks[1]),
          receive_errors   |-> strtoul(line.toks[3]),
          receive_dropped  |-> strtoul(line.toks[4]),
          transmit_bytes   |-> strtoul(line.toks[9]),
          transmit_errors  |-> strtoul(line.toks[11]),
          transmit_dropped |-> strtoul(line.toks[12])]

\* the lines the loop skips: if (buffer_num < 2)
HeaderLines == 2

\* the while loop from line `from` on
RECURSIVE NetScan(_, _, _)
NetScan(m, lines, from) ==
    IF from > Len(lines) THEN [ret |-> 0, metrics |-> m, crashed |-> FALSE]
    ELSE IF from <= HeaderLines THEN NetScan(m, lines, from + 1)
    ELSE IF NetLineCrashes(lines[from]) THEN [ret |-> 0, metrics |-> m, crashed |-> TRUE]
    ELSE NetScan(NetLine(m, lines[from]), lines, from + 1)

\* int get_network_metrics(NetworkMetrics* metrics)
get_network_metrics(m, f) ==
    IF ~f.opened THEN [ret |-> -1, metrics |-> m, crashed |-> FALSE]
    ELSE NetScan(m, f.lines, 1)

\* int get_running_processes(void)
get_running_processes(f) ==
    IF ~f.opened THEN -1
    ELSE IF f.procs_running = <<>> THEN -1
    ELSE IF f.procs_running[1] = 0 THEN -1
    ELSE f.procs_running[1]

\* long long get_context_switches(void)
get_context_switches(f) ==
    IF ~f.opened THEN -1
    ELSE IF f.ctxt = <<>> THEN 0
    ELSE f.ctxt[1]

(***************************************************************************)
(* The allocator-benchmark bridge.  What a call finds is a record          *)
(* [spawn, exists, opened, chunks, read_error]: how the fork and the exec  *)
(* of the benchmark end, whether /tmp/my_fifo exists, whether open returns *)
(* a descriptor, what each read call delivers, and whether the read loop   *)
(* ends on an error (-1) rather than on end-of-stream (0).  A chunk is the *)
(* sequence of its whitespace-separated tokens.  The numbers of a record   *)
(* are small dyadic values, which the double locals and the float fields   *)
(* of MemoryMetrics both hold exactly.                                     *)
(***************************************************************************)
Fifo(spawn, exists, opened, chunks, read_error) ==
    [spawn |-> spawn, exists |-> exists, opened |-> opened, chunks |-> chunks,
     read_error |-> read_error]

\* void ejecutar_memory(int policy): whether a child runs the benchmark, the
\* only process that opens the FIFO for writing
ejecutar_memory(fifo) == fifo.spawn = "ok"

\* open(FIFO_PATH, O_RDONLY) on an existing FIFO returns once a writer has
\* opened it: with no child to do so the call never returns
OpenBlocks(fifo) == fifo.exists /\ ~ejecutar_memory(fifo)

Policies == {"First_Fit", "Best_Fit", "Worst_Fit"}

\* "%s %d %lf %zu %d %d %zu %lf %lf"
Conv == <<"s", "d", "lf", "zu", "d", "d", "zu", "lf", "lf">>

\* whether a conversion finds input it can convert at the start of a token:
\* %s takes any token, %lf a number or the ".5" an integer conversion left,
\* %d and %zu the digits a number starts with; a word never starts a number
Matches(c, t) ==
    IF c = "s" THEN TRUE
    ELSE IF c = "lf" THEN t.k \in {"int", "real", "frac"}
    ELSE t.k \in {"int", "real"}

\* what a conversion assigns from a token it matches: %d and %zu stop at the
\* decimal point of a real
Converted(c, t) ==
    IF c \in {"d", "zu"} /\ t.k = "real" THEN N(t.v.n \div t.v.d) ELSE t

\* the input left after a conversion: the fraction of a real that %d or %zu
\* stopped in stays to be read
LeftAfter(c, toks) ==
    IF c \in {"d", "zu"} /\ Head(toks).k = "real"
    THEN <<[k |-> "frac", s |-> "",
            v |-> RatSub(Head(toks).v, RatInt(Head(toks).v.n \div Head(toks).v.d))]>>
             \o Tail(toks)
    ELSE Tail(toks)

\* the tokens sscanf assigns, conversion k being the next one: up to the
\* first conversion that fails or the end of the buffer
RECURSIVE Assigned(_, _)
Assigned(toks, k) ==
    IF k > Len(Conv) \/ toks = <<>> THEN <<>>
    ELSE IF ~Matches(Conv[k], Head(toks)) THEN <<>>
    ELSE <<Converted(Conv[k], Head(toks))>> \o Assigned(LeftAfter(Conv[k], toks), k + 1)

\* the value sscanf returns
Scanned(toks, k) == Len(Assigned(toks, k))

\* char buffer[256] after the read loop: each read starts at buffer[0], so
\* the last chunk read is what is left; with no byte read the array keeps
\* whatever the stack held (g.buffer)
BufferAfterReads(chunks, g) ==
    IF chunks = <<>> THEN g.buffer ELSE chunks[Len(chunks)]

\* a local after sscanf assigned the tokens a: assigned when its conversion
\* was reached, else the indeterminate value the uninitialised local holds
\* (g.val)
LocalAfter(a, k, g) == IF Len(a) >= k THEN a[k].v ELSE g.val

\* char policy_name[20] after sscanf
NameAfter(toks, g) ==
    LET a == Assigned(toks, 1)
    IN  IF Len(a) >= 1 THEN a[1].s ELSE g.name

RecordOfMutant(toks, g) ==
    LET a == Assigned(toks, 1)
    IN
    [iterations             |-> LocalAfter(a, 2, g),
     time_taken             |-> LocalAfter(a, 3, g),
     total_allocated        |-> LocalAfter(a, 4, g),
     freed_blocks           |-> LocalAfter(a, 6, g),
     free_blocks            |-> LocalAfter(a, 5, g),
     free_size              |-> LocalAfter(a, 7, g),
     avg_fragmentation      |-> LocalAfter(a, 8, g),
     external_fragmentation |-> LocalAfter(a, 9, g)]
\* the eight assignments of one branch of read_memory_metrics
RecordOf(toks, g) ==
    LET a == Assigned(toks, 1)
    IN
    [iterations             |-> LocalAfter(a, 2, g),
     time_taken             |-> LocalAfter(a, 3, g),
     total_allocated        |-> LocalAfter(a, 4, g),
     freed_blocks           |-> LocalAfter(a, 5, g),
     free_blocks            |-> LocalAfter(a, 6, g),
     free_size              |-> LocalAfter(a, 7, g),
     avg_fragmentation      |-> LocalAfter(a, 8, g),
     external_fragmentation |-> LocalAfter(a, 9, g)]

\* if (!sscanf(...) == 9): the negation binds first, so 0 or 1 is compared
\* with 9 and the message is never printed
ScanErrorPrinted(toks) == (IF Scanned(toks, 1) = 0 THEN 1 ELSE 0) = 9

SlotOfMutant(name) == IF name \in Policies THEN name ELSE "Worst_Fit"
\* the strcmp chain: the slot the record goes to, "" when none
SlotOf(name) == IF name \in Policies THEN name ELSE ""

\* void read_memory_metrics(): the three global slots after the call
read_memory_metrics(sl, fifo, g) ==
    IF ~fifo.opened THEN sl
    ELSE LET buf == BufferAfterReads(fifo.chunks, g)
         IN  IF SlotOf(NameAfter(buf, g)) = "" THEN sl
             ELSE [sl EXCEPT ![SlotOf(NameAfter(buf, g))] = RecordOf(buf, g)]

\* whether read_memory_metrics prints a message: perror when open fails, the
\* printf of the sscanf test otherwise
PipeErrorPrinted(fifo, g) ==
    IF ~fifo.opened THEN TRUE
    ELSE ScanErrorPrinted(BufferAfterReads(fifo.chunks, g))

\* int get_First_Fit / get_Best_Fit / get_Worst_Fit (MemoryMetrics*):
\* ejecutar_memory, read_memory_metrics, then the copy of the policy's slot;
\* blocked when the open of read_memory_metrics never returns
get_Fit(policy, sl, cl, fifo, g) ==
    IF OpenBlocks(fifo)
    THEN [ret |-> 0, slots |-> sl, caller |-> cl, blocked |-> TRUE]
    ELSE LET after == read_memory_metrics(sl, fifo, g)
         IN  [ret |-> 0, slots |-> after, caller |-> [cl EXCEPT ![policy] = after[policy]],
              blocked |-> FALSE]

ZeroMetrics ==
    [iterations |-> Zero, time_taken |-> Zero, total_allocated |-> Zero,
     freed_blocks |-> Zero, free_blocks |-> Zero, free_size |-> Zero,
     avg_fragmentation |-> Zero, external_fragmentation |-> Zero]

(***************************************************************************)
(* The gauges of each metric, in the order its update function sets them.  *)
(***************************************************************************)
FitGauges(p) ==
    <<p \o "_Iteration", p \o "_Time", p \o "_Total_Allocated", p \o "_Freed_Blocks",
      p \o "_Free_Blocks", p \o "_Free_Size", p \o "_Fragmentation",
      p \o "_External_Fragmentation">>

GaugesOf(metric) ==
    IF metric = "cpu_usage" THEN <<"cpu_usage_percentage">>
    ELSE IF metric = "memory_usage"
    THEN <<"memory_usage_percentage", "total_memory_mb", "used_memory_mb",
           "available_memory_mb", "memory_fragmentation_percentage">>
    ELSE IF metric = "disk_usage"
    THEN <<"disk_read_time_ms", "disk_write_time_ms", "disk_io_in_progress",
           "disk_io_time_ms">>
    ELSE IF metric = "network_usage"
    THEN <<"network_received_bytes", "network_transmitted_bytes",
           "network_received_errors", "network_transmitted_errors",
           "network_received_dropped", "network_transmitted_dropped">>
    ELSE IF metric = "running_processes" THEN <<"running_processes">>
    ELSE IF metric = "context_switches" THEN <<"context_switches">>
    ELSE IF metric \in Policies THEN FitGauges(metric)
    ELSE <<>>

SystemMetrics ==
    {"cpu_usage", "memory_usage", "disk_usage", "network_usage",
     "running_processes", "context_switches"}

MetricNames == SystemMetrics \cup Policies

AllGauges == UNION {{GaugesOf(m)[k] : k \in 1..Len(GaugesOf(m))} : m \in MetricNames}

(***************************************************************************)
(* State.                                                                  *)
(***************************************************************************)
VARIABLES
    config,           \* config.metrics, the enabled-metric list
    build,            \* which main.c is built: "main_c" or "part_005"
    i,                \* the index of update_metrics' for loop (from 1)
    pc,               \* where the sampling thread is
    pending,          \* the prom_gauge_set calls left in the update running
    lock,             \* pthread_mutex_t lock: "free" or its holder
    gauges,           \* the value of every prom gauge
    prev,             \* the static prev_* of get_cpu_usage
    metrics_disk,     \* DiskMetrics metrics_disk
    metrics_network,  \* NetworkMetrics metrics_network
    slots,            \* First_Fit_Metrics, Best_Fit_Metrics, Worst_Fit_Metrics
    caller,           \* MemoryMetrics First, Best, Worst of expose_metrics.c
    cpu_stored,       \* history: get_cpu_usage has stored a sample
    last,             \* history: the last sampler call, its input and result
    log,              \* history: the update calls of the cycle running
    committed,        \* history: per metric, the values of its last whole update
    scrape,           \* the scrape pass running: its metric, the values read
    pass,             \* history: the last scrape pass completed
    init_ret,         \* history: what init_metrics returned to main
    tid               \* pthread_t tid of main: the exposition thread

vars == <<config, build, i, pc, pending, lock, gauges, prev, metrics_disk,
          metrics_network, slots, caller, cpu_stored, last, log, committed,
          scrape, pass, init_ret, tid>>

ZeroDisk == [read_time_ms |-> 0, write_time_ms |-> 0, io_in_progress |-> 0, io_time_ms |-> 0]

ZeroNetwork ==
    [interface |-> "", receive_bytes |-> 0, receive_errors |-> 0, receive_dropped |-> 0,
     transmit_bytes |-> 0, transmit_errors |-> 0, transmit_dropped |-> 0]

ZeroTuple(metric) == [k \in 1..Len(GaugesOf(metric)) |-> Zero]

\* the objects of static storage as the program starts, and the history
Globals ==
    /\ i = 1
    /\ pending = <<>>
    /\ lock = "free"
    /\ gauges = [g \in AllGauges |-> Zero]
    /\ prev = ZeroSample
    /\ metrics_disk = ZeroDisk
    /\ metrics_network = ZeroNetwork
    /\ slots = [p \in Policies |-> ZeroMetrics]
    /\ caller = [p \in Policies |-> ZeroMetrics]
    /\ cpu_stored = FALSE
    /\ last = [fn |-> "none"]
    /\ log = <<>>
    /\ committed = [m \in MetricNames |-> ZeroTuple(m)]
    /\ scrape = [metric |-> "", seen |-> <<>>, whole |-> {}, n |-> 0]
    /\ pass = [metric |-> "", seen |-> <<>>, whole |-> {}]

\* the state once load_config and init_metrics have returned and the
\* exposition thread is started
InitWith(configs, builds) ==
    /\ config \in configs
    /\ build \in builds
    /\ pc = "dispatch"
    /\ init_ret = "EXIT_SUCCESS"
    /\ tid = "running"
    /\ Globals

\* the state as main is entered
InitStart(builds) ==
    /\ config = <<>>
    /\ build \in builds
    /\ pc = "load_config"
    /\ init_ret = "not_called"
    /\ tid = "none"
    /\ Globals

(***************************************************************************)
(* update_metrics: the branch the strcmp chain takes for a name.           *)
(***************************************************************************)
SystemBranch(name) ==
    IF name = "cpu_usage" THEN "update_cpu_gauge"
    ELSE IF name = "memory_usage" THEN "update_memory_gauge"
    ELSE IF name = "disk_usage" THEN "update_disk_gauge"
    ELSE IF name = "network_usage" THEN "update_network_gauge"
    ELSE IF name = "running_processes" THEN "update_proccess_gauge"
    ELSE IF name = "context_switches" THEN "update_context_switches_gauge"
    ELSE "none"

\* src/main.c has the six system branches; the main.c with the allocator
\* policies has three more
Branch(b, name) ==
    IF SystemBranch(name) # "none" THEN SystemBranch(name)
    ELSE IF b = "part_005" /\ name \in Policies THEN "update_Fit_gauge"
    ELSE "none"

LoopAdvanceMutant(k, ok) == IF ok THEN k + 1 ELSE Len(config) + 1
\* for (...; i++): the update's result is not looked at
LoopAdvance(k, ok) == k + 1

AtBranchMutant(fn) ==
    /\ pc \in {"dispatch", "set"}
    /\ i <= Len(config)
    /\ Branch(build, config[i]) = fn
\* update_metrics is at the i-th name and its strcmp chain takes branch fn
AtBranch(fn) ==
    /\ pc = "dispatch"
    /\ i <= Len(config)
    /\ Branch(build, config[i]) = fn

\* the values an update is about to set, paired with their gauges
Paired(metric, vals) == [k \in 1..Len(vals) |-> <<GaugesOf(metric)[k], vals[k]>>]

\* the sampler succeeded: the update goes on to take the lock
Proceed(vals) ==
    /\ pending' = Paired(config[i], vals)
    /\ pc' = "lock"
    /\ i' = i
    /\ log' = Append(log, [name |-> config[i], fn |-> Branch(build, config[i]),
                           ok |-> TRUE, vals |-> vals])
    /\ committed' = committed
    /\ scrape' = IF scrape.metric = config[i]
                 THEN [scrape EXCEPT !.whole = @ \cup {vals}]
                 ELSE scrape

FailMutant ==
    /\ pending' = Paired(config[i], [k \in 1..Len(GaugesOf(config[i])) |-> ErrVal])
    /\ pc' = "lock"
    /\ i' = i
    /\ log' = Append(log, [name |-> config[i], fn |-> Branch(build, config[i]),
                           ok |-> FALSE, vals |-> <<>>])
    /\ committed' = committed
    /\ scrape' = scrape
\* the sampler failed: the update prints its message and returns
Fail ==
    /\ pending' = pending
    /\ pc' = "dispatch"
    /\ i' = LoopAdvance(i, FALSE)
    /\ log' = Append(log, [name |-> config[i], fn |-> Branch(build, config[i]),
                           ok |-> FALSE, vals |-> <<>>])
    /\ committed' = committed
    /\ scrape' = scrape

\* int update_cpu_gauge(): the call of get_cpu_usage and the test of usage
update_cpu_gauge(files) ==
    /\ AtBranch("update_cpu_gauge")
    /\ \E f \in files :
         LET r == get_cpu_usage(prev, f)
         IN  /\ prev' = r.prev
             /\ cpu_stored' = (cpu_stored \/ r.stored)
             /\ last' = [fn |-> "get_cpu_usage", file |-> f, before |-> prev,
                         stored_before |-> cpu_stored, ret |-> r.ret]
             /\ IF RatGe0(r.ret) THEN Proceed(<<r.ret>>) ELSE Fail
    /\ UNCHANGED <<config, build, init_ret, tid, lock, gauges, metrics_disk, metrics_network,
                   slots, caller, pass>>

\* double get_memory_fragmentation(void) is declared in metrics.h and defined
\* nowhere in the sources: a percentage, or -1.0 on error
FragmentationValues == {ErrVal, Zero, RatInt(25)}

\* the five values update_memory_gauge reads; rd[k] is /proc/meminfo as the
\* k-th fopen of the call finds it
MemoryValues(rd, frag) ==
    <<get_memory_usage(rd[1], rd[2]),
      get_memory_total(rd[3]),
      get_memory_used(rd[4], rd[5]),
      get_memory_free(rd[6]),
      frag>>

MemoryGaugeMutant(reads) ==
    /\ AtBranch("update_memory_gauge")
    /\ \E rd \in reads, frag \in FragmentationValues :
         LET v == MemoryValues(rd, frag)
         IN  /\ last' = [fn |-> "get_memory_usage", reads |-> rd, ret |-> v[1], vals |-> v]
             /\ IF RatGe0(v[1]) THEN Proceed(v) ELSE Fail
    /\ UNCHANGED <<config, build, init_ret, tid, lock, gauges, prev, metrics_disk, metrics_network,
                   slots, caller, cpu_stored, pass>>
\* int update_memory_gauge(): the five reads and the test of the values
update_memory_gauge(reads) ==
    /\ AtBranch("update_memory_gauge")
    /\ \E rd \in reads, frag \in FragmentationValues :
         LET v == MemoryValues(rd, frag)
         IN  /\ last' = [fn |-> "get_memory_usage", reads |-> rd, ret |-> v[1], vals |-> v]
             /\ IF \A k \in 1..5 : RatGe0(v[k]) THEN Proceed(v) ELSE Fail
    /\ UNCHANGED <<config, build, init_ret, tid, lock, gauges, prev, metrics_disk, metrics_network,
                   slots, caller, cpu_stored, pass>>

DiskValues(m) ==
    <<RatInt(m.read_time_ms), RatInt(m.write_time_ms), RatInt(m.io_in_progress),
      RatInt(m.io_time_ms)>>

\* void update_disk_gauge(): the call of get_disk_metrics and the test
update_disk_gauge(files) ==
    /\ AtBranch("update_disk_gauge")
    /\ \E f \in files :
         LET r == get_disk_metrics(metrics_disk, f)
         IN  /\ metrics_disk' = r.metrics
             /\ last' = [fn |-> "get_disk_metrics", file |-> f, before |-> metrics_disk,
                         code |-> r.ret]
             /\ IF r.ret >= 0 THEN Proceed(DiskValues(r.metrics)) ELSE Fail
    /\ UNCHANGED <<config, build, init_ret, tid, lock, gauges, prev, metrics_network, slots, caller,
                   cpu_stored, pass>>

NetworkValues(m) ==
    <<RatInt(m.receive_bytes), RatInt(m.transmit_bytes), RatInt(m.receive_errors),
      RatInt(m.transmit_errors), RatInt(m.receive_dropped), RatInt(m.transmit_dropped)>>

\* void update_network_gauge(): the call of get_network_metrics and the test;
\* a null token passed to strtoul ends the process
update_network_gauge(files) ==
    /\ AtBranch("update_network_gauge")
    /\ \E f \in files :
         LET r == get_network_metrics(metrics_network, f)
         IN  /\ last' = [fn |-> "get_network_metrics", file |-> f,
                         before |-> metrics_network, code |-> r.ret, crashed |-> r.crashed]
             /\ metrics_network' = r.metrics
             /\ IF r.crashed
                THEN /\ pc' = "crashed"
                     /\ UNCHANGED <<i, pending, log, committed, scrape>>
                ELSE IF r.ret >= 0 THEN Proceed(NetworkValues(r.metrics)) ELSE Fail
    /\ UNCHANGED <<config, build, init_ret, tid, lock, gauges, prev, metrics_disk, slots, caller,
                   cpu_stored, pass>>

\* void update_proccess_gauge()
update_proccess_gauge(files) ==
    /\ AtBranch("update_proccess_gauge")
    /\ \E f \in files :
         LET r == get_running_processes(f)
         IN  /\ last' = [fn |-> "get_running_processes", file |-> f, code |-> r]
             /\ IF r >= 0 THEN Proceed(<<RatInt(r)>>) ELSE Fail
    /\ UNCHANGED <<config, build, init_ret, tid, lock, gauges, prev, metrics_disk, metrics_network,
                   slots, caller, cpu_stored, pass>>

\* void update_context_switches_gauge()
update_context_switches_gauge(files) ==
    /\ AtBranch("update_context_switches_gauge")
    /\ \E f \in files :
         LET r == get_context_switches(f)
         IN  /\ last' = [fn |-> "get_context_switches", file |-> f, code |-> r]
             /\ IF r >= 0 THEN Proceed(<<RatInt(r)>>) ELSE Fail
    /\ UNCHANGED <<config, build, init_ret, tid, lock, gauges, prev, metrics_disk, metrics_network,
                   slots, caller, cpu_stored, pass>>

FitValues(m) ==
    <<m.iterations, m.time_taken, m.total_allocated, m.freed_blocks, m.free_blocks,
      m.free_size, m.avg_fragmentation, m.external_fragmentation>>

\* void update_First_Fit_gauge / update_Best_Fit_gauge / update_Worst_Fit_gauge:
\* the call of get_*_Fit and the test of TodoCorrecto; g is what the
\* uninitialised locals and buffer of read_memory_metrics hold; at "open" the
\* thread is inside an open that does not return
update_Fit_gauge(policy, fifos, garbage) ==
    /\ AtBranch("update_Fit_gauge")
    /\ config[i] = policy
    /\ \E fifo \in fifos, g \in garbage :
         LET r == get_Fit(policy, slots, caller, fifo, g)
         IN  /\ slots' = r.slots
             /\ caller' = r.caller
             /\ last' = [fn |-> "read_memory_metrics", policy |-> policy, fifo |-> fifo,
                         garbage |-> g, before |-> slots, code |-> r.ret,
                         blocked |-> r.blocked, printed |-> PipeErrorPrinted(fifo, g)]
             /\ IF r.blocked
                THEN /\ pc' = "open"
                     /\ UNCHANGED <<i, pending, log, committed, scrape>>
                ELSE IF r.ret >= 0 THEN Proceed(FitValues(r.caller[policy])) ELSE Fail
    /\ UNCHANGED <<config, build, init_ret, tid, lock, gauges, prev, metrics_disk, metrics_network,
                   cpu_stored, pass>>

\* pthread_mutex_lock(&lock)
pthread_mutex_lock ==
    /\ pc = "lock"
    /\ lock = "free"
    /\ lock' = "sampler"
    /\ pc' = "set"
    /\ UNCHANGED <<config, build, init_ret, tid, i, pending, gauges, prev, metrics_disk,
                   metrics_network, slots, caller, cpu_stored, last, log, committed,
                   scrape, pass>>

\* prom_gauge_set(gauge, value, NULL): the next one of the update
prom_gauge_set ==
    /\ pc = "set"
    /\ pending # <<>>
    /\ gauges' = [gauges EXCEPT ![Head(pending)[1]] = Head(pending)[2]]
    /\ pending' = Tail(pending)
    /\ UNCHANGED <<config, build, init_ret, tid, i, pc, lock, prev, metrics_disk, metrics_network,
                   slots, caller, cpu_stored, last, log, committed, scrape, pass>>

UnlockMutant ==
    /\ pc = "set"
    /\ pending = <<>>
    /\ lock' = lock
    /\ pc' = "dispatch"
    /\ i' = LoopAdvance(i, TRUE)
    /\ committed' = [committed EXCEPT ![config[i]] = log[Len(log)].vals]
    /\ UNCHANGED <<config, build, init_ret, tid, pending, gauges, prev, metrics_disk, metrics_network,
                   slots, caller, cpu_stored, last, log, scrape, pass>>
\* pthread_mutex_unlock(&lock) and the return to update_metrics
pthread_mutex_unlock ==
    /\ pc = "set"
    /\ pending = <<>>
    /\ lock' = "free"
    /\ pc' = "dispatch"
    /\ i' = LoopAdvance(i, TRUE)
    /\ committed' = [committed EXCEPT ![config[i]] = log[Len(log)].vals]
    /\ UNCHANGED <<config, build, init_ret, tid, pending, gauges, prev, metrics_disk, metrics_network,
                   slots, caller, cpu_stored, last, log, scrape, pass>>

\* a name no branch of update_metrics matches
update_metrics_skip ==
    /\ AtBranch("none")
    /\ i' = i + 1
    /\ log' = Append(log, [name |-> config[i], fn |-> "none", ok |-> FALSE, vals |-> <<>>])
    /\ UNCHANGED <<config, build, init_ret, tid, pc, pending, lock, gauges, prev, metrics_disk,
                   metrics_network, slots, caller, cpu_stored, last, committed, scrape, pass>>

\* update_metrics returns to the while (true) of main
update_metrics_return ==
    /\ pc = "dispatch"
    /\ i > Len(config)
    /\ pc' = "sleep"
    /\ UNCHANGED <<config, build, init_ret, tid, i, pending, lock, gauges, prev, metrics_disk,
                   metrics_network, slots, caller, cpu_stored, last, log, committed,
                   scrape, pass>>

SleepMutant ==
    /\ pc = "sleep"
    /\ \A k \in 1..Len(log) : log[k].ok \/ log[k].fn = "none"
    /\ pc' = "dispatch"
    /\ i' = 1
    /\ log' = <<>>
    /\ UNCHANGED <<config, build, init_ret, tid, pending, lock, gauges, prev, metrics_disk,
                   metrics_network, slots, caller, cpu_stored, last, committed, scrape, pass>>
\* sleep(config.sampling_interval) returns and the next update_metrics starts
sleep ==
    /\ pc = "sleep"
    /\ pc' = "dispatch"
    /\ i' = 1
    /\ log' = <<>>
    /\ UNCHANGED <<config, build, init_ret, tid, pending, lock, gauges, prev, metrics_disk,
                   metrics_network, slots, caller, cpu_stored, last, committed, scrape, pass>>

(***************************************************************************)
(* main before its loop: load_config, init_metrics, pthread_create.  The   *)
(* configuration file is [opened, read, parsed, is_array, entries]: what   *)
(* fopen, fread and cJSON_Parse make of it, whether "metrics" is an array, *)
(* and the items of the array as tokens (a word is a JSON string, a number *)
(* any other item).  Allocations are taken to succeed.  A char* that is    *)
(* NULL is NullPtr; strdup and strcmp of it are undefined, and either end  *)
(* the process or go on as if the pointer compared unequal.                *)
(***************************************************************************)
NullPtr == "NULL"

ConfigFile(opened, read, parsed, is_array, entries) ==
    [opened |-> opened, read |-> read, parsed |-> parsed, is_array |-> is_array,
     entries |-> entries]

cJSON_IsString(item) == item.k = "word"

\* metric->valuestring
valuestring(item) == IF cJSON_IsString(item) THEN item.s ELSE NullPtr

\* Config load_config(const char* filename): config.metrics as it is
\* returned, and whether strdup was called with NULL.  src/main.c calls
\* strdup for every item; the other main.c calls it for the strings and
\* leaves the element calloc zeroed for the rest
load_config(b, f) ==
    IF ~(f.opened /\ f.read /\ f.parsed /\ f.is_array)
    THEN [metrics |-> <<>>, strdup_null |-> FALSE]
    ELSE [metrics |-> [k \in 1..Len(f.entries) |-> valuestring(f.entries[k])],
          strdup_null |-> /\ b = "main_c"
                          /\ \E k \in 1..Len(f.entries) : ~cJSON_IsString(f.entries[k])]

\* the calls of init_metrics that can fail before its loop
FailsBeforeLoop ==
    {"pthread_mutex_init", "prom_collector_registry_default_init", "prom_gauge_new"}

\* the registration loop of init_metrics from index k; o is the call that
\* fails in this run, if any
RECURSIVE RegisterLoop(_, _, _)
RegisterLoop(cfg, k, o) ==
    IF k > Len(cfg) THEN "EXIT_SUCCESS"
    ELSE IF cfg[k] = NullPtr THEN "strcmp_null"
    ELSE IF cfg[k] \in MetricNames /\ o = "prom_collector_registry_must_register_metric"
    THEN "EXIT_FAILURE"
    ELSE RegisterLoop(cfg, k + 1, o)

\* int init_metrics(Config config)
init_metrics(cfg, o) ==
    IF o \in FailsBeforeLoop THEN "EXIT_FAILURE" ELSE RegisterLoop(cfg, 1, o)

\* the names of a configuration that are not NULL
NotNull(cfg) == SelectSeq(cfg, LAMBDA x : x # NullPtr)

\* Config config = load_config("../config.json");
main_load_config(files) ==
    /\ pc = "load_config"
    /\ \E f \in files :
         LET r == load_config(build, f)
         IN  /\ last' = [fn |-> "load_config", file |-> f]
             /\ \/ /\ config' = r.metrics
                   /\ pc' = "init_metrics"
                \/ /\ r.strdup_null
                   /\ config' = config
                   /\ pc' = "crashed"
    /\ UNCHANGED <<build, i, pending, lock, gauges, prev, metrics_disk, metrics_network,
                   slots, caller, cpu_stored, log, committed, scrape, pass, init_ret, tid>>

\* init_metrics(config);  main does not look at the value returned
main_init_metrics(outcomes) ==
    /\ pc = "init_metrics"
    /\ \E o \in outcomes :
         /\ last' = [fn |-> "init_metrics", fails |-> o]
         /\ IF init_metrics(config, o) = "strcmp_null"
            THEN \/ /\ pc' = "crashed"
                    /\ init_ret' = init_ret
                 \/ /\ pc' = "pthread_create"
                    /\ init_ret' = init_metrics(NotNull(config), o)
            ELSE /\ pc' = "pthread_create"
                 /\ init_ret' = init_metrics(config, o)
    /\ UNCHANGED <<config, build, i, pending, lock, gauges, prev, metrics_disk,
                   metrics_network, slots, caller, cpu_stored, log, committed, scrape,
                   pass, tid>>

\* if (pthread_create(&tid, NULL, expose_metrics, NULL) != 0) return EXIT_FAILURE;
pthread_create(results) ==
    /\ pc = "pthread_create"
    /\ \E created \in results :
         IF created
         THEN tid' = "running" /\ pc' = "dispatch"
         ELSE tid' = tid /\ pc' = "exited"
    /\ UNCHANGED <<config, build, i, pending, lock, gauges, prev, metrics_disk,
                   metrics_network, slots, caller, cpu_stored, last, log, committed,
                   scrape, pass, init_ret>>

\* strcmp(config.metrics[i], "cpu_usage") of update_metrics with a NULL
\* element ends the process (update_metrics_skip is the other outcome)
strcmp_null ==
    /\ pc = "dispatch"
    /\ i <= Len(config)
    /\ config[i] = NullPtr
    /\ pc' = "crashed"
    /\ UNCHANGED <<config, build, init_ret, tid, i, pending, lock, gauges, prev,
                   metrics_disk, metrics_network, slots, caller, cpu_stored, last, log,
                   committed, scrape, pass>>

(***************************************************************************)
(* The exposition thread.  expose_metrics starts the HTTP daemon of the    *)
(* Prometheus client and sleeps; the daemon answers a request by reading   *)
(* the registered gauges one after another.  `lock` is an object of        *)
(* expose_metrics.c that only the update functions take: the daemon is     *)
(* never given it.  A pass is followed over the gauges of one metric.      *)
(***************************************************************************)
\* the values of the update of metric m that is under way, if one is
UnderWay(m) ==
    IF pc \in {"lock", "set"} /\ i <= Len(config) /\ config[i] = m
    THEN {log[Len(log)].vals}
    ELSE {}

\* a request arrives: the pass over the gauges of an enabled metric begins
scrape_begin ==
    /\ pc # "crashed"
    /\ tid = "running"
    /\ scrape.metric = ""
    /\ scrape.n < MaxPasses
    /\ \E k \in 1..Len(config) :
         /\ config[k] \in MetricNames
         /\ scrape' = [metric |-> config[k], seen |-> <<>>,
                       whole |-> {committed[config[k]]} \cup UnderWay(config[k]),
                       n |-> scrape.n + 1]
    /\ UNCHANGED <<config, build, init_ret, tid, i, pc, pending, lock, gauges, prev, metrics_disk,
                   metrics_network, slots, caller, cpu_stored, last, log, committed, pass>>

\* the daemon reads the next gauge of the metric; after the last one the
\* pass is complete
scrape_read ==
    /\ pc # "crashed"
    /\ scrape.metric # ""
    /\ LET g == GaugesOf(scrape.metric)
           seen == Append(scrape.seen, gauges[g[Len(scrape.seen) + 1]])
       IN  IF Len(seen) = Len(g)
           THEN /\ pass' = [metric |-> scrape.metric, seen |-> seen, whole |-> scrape.whole]
                /\ scrape' = [metric |-> "", seen |-> <<>>, whole |-> {}, n |-> scrape.n]
           ELSE /\ pass' = pass
                /\ scrape' = [scrape EXCEPT !.seen = seen]
    /\ UNCHANGED <<config, build, init_ret, tid, i, pc, pending, lock, gauges, prev, metrics_disk,
                   metrics_network, slots, caller, cpu_stored, last, log, committed>>

\* the steps every specification shares
LoopSteps ==
    \/ pthread_mutex_lock
    \/ prom_gauge_set
    \/ pthread_mutex_unlock
    \/ update_metrics_return
    \/ sleep

(***************************************************************************)
(* The CPU sampler alone: /proc/stat holds any 8 counters of at most       *)
(* MaxTicks ticks in all at each read (later reads need not be larger), or *)
(* a short first line, or cannot be opened.                                *)
(***************************************************************************)
Sum8(q) == q[1] + q[2] + q[3] + q[4] + q[5] + q[6] + q[7] + q[8]

CpuLines == {q \in [1..8 -> 0..MaxTicks] : Sum8(q) <= MaxTicks} \cup {<<1, 1, 1>>}

StatFile(opened, cpu, procs, ctxt) ==
    [opened |-> opened, cpu |-> cpu, procs_running |-> procs, ctxt |-> ctxt]

Unopened == StatFile(FALSE, <<>>, <<>>, <<>>)

CpuStatFiles == {Unopened} \cup {StatFile(TRUE, q, <<>>, <<>>) : q \in CpuLines}

NextCpu ==
    \/ update_cpu_gauge(CpuStatFiles)
    \/ LoopSteps

SpecCpu == InitWith({<<"cpu_usage">>}, {"main_c"}) /\ [][NextCpu]_vars

\* the gauges of a metric hold the values of its last whole update
Stale(name) ==
    \A j \in 1..Len(GaugesOf(name)) : gauges[GaugesOf(name)[j]] = committed[name][j]

\* the last call was a get_cpu_usage that read and parsed its 8 counters
CpuParsed == last.fn = "get_cpu_usage" /\ last.file.opened /\ Len(last.file.cpu) >= 8

\* the last call was a get_cpu_usage made while no sample had been stored
CpuFirstCall == last.fn = "get_cpu_usage" /\ ~last.stored_before

\* the sampling thread is between two update calls
BetweenUpdates == pc \in {"dispatch", "sleep"}

PlainBusy(s) == s.user + s.nice + s.system + s.irq + s.softirq + s.steal
PlainTotal(s) == PlainBusy(s) + s.idle + s.iowait

CpuMonotone(p, c) ==
    /\ c.user >= p.user /\ c.nice >= p.nice /\ c.system >= p.system
    /\ c.idle >= p.idle /\ c.iowait >= p.iowait /\ c.irq >= p.irq
    /\ c.softirq >= p.softirq /\ c.steal >= p.steal

\* C2: when the 8 counters read are each at least the stored ones and the
\* total grew, get_cpu_usage returns a value between 0 and 100.
C2_MonotoneUsageInRange ==
    (/\ CpuParsed
     /\ CpuMonotone(last.before, Sample(last.file.cpu))
     /\ PlainTotal(Sample(last.file.cpu)) > PlainTotal(last.before))
    => (RatGe0(last.ret) /\ RatLe(last.ret, Hundred))

\* C2 witness: a second sample, larger than the stored one, gave a
\* percentage strictly between 0 and 100.
C2_Witness ==
    /\ CpuParsed
    /\ last.stored_before
    /\ CpuMonotone(last.before, Sample(last.file.cpu))
    /\ PlainTotal(Sample(last.file.cpu)) > PlainTotal(last.before)
    /\ RatGt0(last.ret)
    /\ last.ret # Hundred

\* C16: whatever 8 counters get_cpu_usage read, after whatever samples, it
\* returned -1 or a value between 0 and 100, and the CPU gauge is between 0
\* and 100.
C16_UsageAlwaysInRange ==
    /\ CpuParsed => (last.ret = ErrVal \/ (RatGe0(last.ret) /\ RatLe(last.ret, Hundred)))
    /\ RatGe0(gauges["cpu_usage_percentage"])
    /\ RatLe(gauges["cpu_usage_percentage"], Hundred)

PlainIdle(s) == s.idle + s.iowait

\* the differences of the two totals and of the two idle totals, as unsigned
\* words
DeltaTotal == (PlainTotal(Sample(last.file.cpu)) - PlainTotal(last.before)) % Modulus
DeltaIdle == (PlainIdle(Sample(last.file.cpu)) - PlainIdle(last.before)) % Modulus

\* none of the three differences is negative
NoDeltaWraps ==
    /\ PlainTotal(Sample(last.file.cpu)) >= PlainTotal(last.before)
    /\ PlainIdle(Sample(last.file.cpu)) >= PlainIdle(last.before)
    /\ PlainBusy(Sample(last.file.cpu)) >= PlainBusy(last.before)

\* C17: a get_cpu_usage call that parsed its 8 counters and found a total
\* delta other than zero returned (dTotal - dIdle) / dTotal * 100, where
\* idle_total = idle + iowait, total = idle_total + the six other counters,
\* and the deltas are taken, as unsigned words, against the stored sample;
\* when no difference is negative that is the share of the non-idle ticks
\* among the ticks elapsed.  The stored sample is the one of the last call
\* that returned a percentage: such a call stores what it read, and a call
\* that returns -1 leaves the stored sample alone.
C17_UsageIsBusyShareOfDelta ==
    /\ (CpuParsed /\ DeltaTotal # 0)
       => /\ last.ret = Rat(((DeltaTotal - DeltaIdle) % Modulus) * 100, DeltaTotal)
          /\ NoDeltaWraps
             => last.ret = Rat((PlainBusy(Sample(last.file.cpu)) - PlainBusy(last.before)) * 100,
                               PlainTotal(Sample(last.file.cpu)) - PlainTotal(last.before))
          /\ prev = Sample(last.file.cpu)
    /\ (last.fn = "get_cpu_usage" /\ last.ret = ErrVal) => prev = last.before

\* C17 witness: with a sample stored by an earlier call, 1 tick elapsed and
\* it was an iowait tick: the call returned 0 and stored what it read.
C17_Witness ==
    /\ CpuParsed
    /\ last.stored_before
    /\ last.before # ZeroSample
    /\ Sample(last.file.cpu).iowait = last.before.iowait + 1
    /\ PlainTotal(Sample(last.file.cpu)) = PlainTotal(last.before) + 1
    /\ NoDeltaWraps
    /\ last.ret = Zero
    /\ prev = Sample(last.file.cpu)

\* C18: a get_cpu_usage call that parsed its 8 counters and found a total
\* delta of zero returned -1, and the CPU gauge holds the value of the last
\* update that completed.
C18_ZeroDeltaIsError ==
    (CpuParsed /\ DeltaTotal = 0)
    => /\ last.ret = ErrVal
       /\ Stale("cpu_usage")

\* C18 witness: the gauge was set by an earlier cycle, the sample read in
\* this one has the total of the stored one, and the cycle ended with the
\* gauge as it was.
C18_Witness ==
    /\ CpuParsed
    /\ last.stored_before
    /\ DeltaTotal = 0
    /\ pc = "sleep"
    /\ RatGt0(gauges["cpu_usage_percentage"])
    /\ Stale("cpu_usage")

\* C19: after a get_cpu_usage call that parsed its 8 counters, the stored
\* sample is the one that call read.
C19_SampleStoredOnEveryPath == CpuParsed => prev = Sample(last.file.cpu)

(***************************************************************************)
(* The memory sampler alone: /proc/meminfo cannot be opened, or holds each *)
(* of the two lines or not, with a figure of 0..MaxKb kB; the file is the  *)
(* same at the six reads of one update_memory_gauge.                       *)
(***************************************************************************)
KbLines == {<<>>} \cup {<<k>> : k \in 0..MaxKb}

MemFile(opened, total, available) ==
    [opened |-> opened, MemTotal |-> total, MemAvailable |-> available]

MemFiles ==
    {MemFile(FALSE, <<>>, <<>>)} \cup {MemFile(TRUE, t, a) : t \in KbLines, a \in KbLines}

\* fopen calls in one update_memory_gauge, get_memory_fragmentation apart
MemoryReads == 6

SteadyReads(files) == {[k \in 1..MemoryReads |-> f] : f \in files}

NextMem ==
    \/ update_memory_gauge(SteadyReads(MemFiles))
    \/ LoopSteps

SpecMem == InitWith({<<"memory_usage">>}, {"main_c"}) /\ [][NextMem]_vars

\* the file the last get_memory_usage read
MemRead == last.reads[1]

\* C3: when /proc/meminfo holds both lines, get_memory_usage returns
\* (MemTotal - MemAvailable) / MemTotal * 100 if MemTotal > 0 and the error
\* value if MemTotal is 0.
C3_UsageIsUsedOverTotal ==
    (/\ last.fn = "get_memory_usage"
     /\ MemRead.opened
     /\ MemRead.MemTotal # <<>>
     /\ MemRead.MemAvailable # <<>>)
    => IF MemRead.MemTotal[1] > 0
       THEN last.ret = Rat((MemRead.MemTotal[1] - MemRead.MemAvailable[1]) * 100,
                           MemRead.MemTotal[1])
       ELSE last.ret = ErrVal

\* C4: when /proc/meminfo lacks the MemTotal line or the MemAvailable line,
\* get_memory_usage returns the error value.
C4_MissingLineIsError ==
    (/\ last.fn = "get_memory_usage"
     /\ MemRead.opened
     /\ (MemRead.MemTotal = <<>> \/ MemRead.MemAvailable = <<>>))
    => last.ret = ErrVal

\* the five memory gauges, in the order update_memory_gauge sets them
MemGauge(j) == gauges[GaugesOf("memory_usage")[j]]

\* C27: after update_memory_gauge read its five values, if one of them is
\* negative no memory gauge is written: each holds the value of the last
\* update that completed; if none is, the five gauges are set one after
\* another with the lock held throughout, those not yet set holding the
\* values of the last update that completed, and once the lock is released
\* the five hold the five values read.
C27_MemoryGaugesAllOrNone ==
    last.fn = "get_memory_usage"
    => IF \E k \in 1..5 : ~RatGe0(last.vals[k])
       THEN Stale("memory_usage") /\ pc \in {"dispatch", "sleep"}
       ELSE /\ pc = "lock" => Stale("memory_usage")
            /\ pc = "set"
               => /\ lock = "sampler"
                  /\ \A j \in 1..5 :
                       MemGauge(j) = IF j <= 5 - Len(pending)
                                     THEN last.vals[j]
                                     ELSE committed["memory_usage"][j]
            /\ pc \in {"dispatch", "sleep"}
               => /\ lock = "free"
                  /\ \A j \in 1..5 : MemGauge(j) = last.vals[j]

\* C27 witness: an update that follows a completed one is under way, with two
\* gauges set and three still holding the values of the earlier update.
C27_Witness ==
    /\ last.fn = "get_memory_usage"
    /\ pc = "set"
    /\ lock = "sampler"
    /\ Len(pending) = 3
    /\ committed["memory_usage"] # ZeroTuple("memory_usage")
    /\ MemGauge(1) = last.vals[1]
    /\ MemGauge(1) # committed["memory_usage"][1]
    /\ MemGauge(3) = committed["memory_usage"][3]
    /\ MemGauge(3) # last.vals[3]

(***************************************************************************)
(* The disk sampler alone.  A line of /proc/diskstats holds the numbers of *)
(* the device, its name, and the statistics; the token at 0-based position *)
(* p of a whole line is the number base + p, so that no two positions and  *)
(* no two lines of different base agree.                                   *)
(***************************************************************************)
DiskTokens == 14

DiskLine(device, base) ==
    [p \in 1..DiskTokens |-> IF p = 3 THEN W(device) ELSE N(base + p - 1)]

\* a line cut before its ninth token
ShortDiskLine(device, base) == SubSeq(DiskLine(device, base), 1, 8)

DiskLines ==
    {DiskLine(d, b) : d \in {"sda", "sda1", "sdb"}, b \in {0, 20}}
        \cup {ShortDiskLine("sda", 40)}

LinesUpTo(lines, n) == UNION {[1..k -> lines] : k \in 0..n}

DiskFiles ==
    {[opened |-> FALSE, lines |-> <<>>]}
        \cup {[opened |-> TRUE, lines |-> l] : l \in LinesUpTo(DiskLines, MaxLines)}

NextDisk ==
    \/ update_disk_gauge(DiskFiles)
    \/ LoopSteps

SpecDisk == InitWith({<<"disk_usage">>}, {"main_c"}) /\ [][NextDisk]_vars

\* the lines of the file read last that hold the device token
DeviceLines ==
    {k \in 1..Len(last.file.lines) :
        \E p \in 1..Len(last.file.lines[k]) :
            last.file.lines[k][p] \in {W("sda"), W("sda1")}}

FirstDeviceLine ==
    last.file.lines[CHOOSE k \in DeviceLines : \A j \in DeviceLines : k <= j]

NetCounters == 16

NetLineOf(name, base) == [name |-> name, toks |-> [k \in 1..NetCounters |-> N(base + k)]]

NetHeaders ==
    <<[name |-> "Inter-|   Receive  |  Transmit", toks |-> <<>>],
      [name |-> " face |bytes packets", toks |-> <<>>]>>

\* whole interface lines, a line with no colon, and a line cut after three
\* counters
WholeNetLines == {NetLineOf(nm, b) : nm \in {"    lo", "  eth0"}, b \in {0, 20}}

NetLines ==
    WholeNetLines \cup {[name |-> "", toks |-> <<>>],
                        [name |-> "  eth1", toks |-> <<N(1), N(2), N(3)>>]}

NetFiles ==
    {[opened |-> FALSE, lines |-> <<>>],
     [opened |-> TRUE, lines |-> <<>>],
     [opened |-> TRUE, lines |-> SubSeq(NetHeaders, 1, 1)]}
        \cup {[opened |-> TRUE, lines |-> NetHeaders \o l] : l \in LinesUpTo(NetLines, MaxLines)}

NextNet ==
    \/ update_network_gauge(NetFiles)
    \/ LoopSteps

SpecNet == InitWith({<<"network_usage">>}, {"main_c"}) /\ [][NextNet]_vars

\* the interface lines of the file read last
InterfaceLines == SubSeq(last.file.lines, HeaderLines + 1, Len(last.file.lines))

LastInterfaceLine == InterfaceLines[Len(InterfaceLines)]

\* C6: after get_network_metrics read two header lines and one or more whole
\* interface lines, it returned 0 and the struct holds the name and the
\* receive bytes, errors, dropped and transmit bytes, errors, dropped of the
\* last of them.
C6_LastInterfaceWins ==
    (/\ last.fn = "get_network_metrics"
     /\ last.file.opened
     /\ Len(last.file.lines) > HeaderLines
     /\ \A k \in 1..Len(InterfaceLines) : InterfaceLines[k] \in WholeNetLines)
    => /\ last.code = 0
       /\ ~last.crashed
       /\ metrics_network.interface = LastInterfaceLine.name
       /\ metrics_network.receive_bytes = LastInterfaceLine.toks[1].v.n
       /\ metrics_network.receive_errors = LastInterfaceLine.toks[3].v.n
       /\ metrics_network.receive_dropped = LastInterfaceLine.toks[4].v.n
       /\ metrics_network.transmit_bytes = LastInterfaceLine.toks[9].v.n
       /\ metrics_network.transmit_errors = LastInterfaceLine.toks[11].v.n
       /\ metrics_network.transmit_dropped = LastInterfaceLine.toks[12].v.n

\* two whole interface lines of different names and counters were read
C6_Witness ==
    /\ last.fn = "get_network_metrics"
    /\ last.file.opened
    /\ Len(InterfaceLines) = 2
    /\ InterfaceLines[1] = NetLineOf("    lo", 0)
    /\ InterfaceLines[2] = NetLineOf("  eth0", 20)
    /\ metrics_network.interface = "  eth0"
    /\ metrics_network.receive_bytes = 21
    /\ metrics_network.transmit_dropped = 32

\* C30: whatever /proc/net/dev holds, a line with fewer counters than the walk
\* reads and a line with no colon included, get_network_metrics passes no
\* null token to strtoul and the process does not end in it.
C30_NoNullTokenConverted ==
    last.fn = "get_network_metrics" => (~last.crashed /\ pc # "crashed")

(***************************************************************************)
(* The bridge alone: one policy enabled, in the build whose loop calls the *)
(* policy updates.  A record is the nine tokens the benchmark writes; the  *)
(* numbers of Sent(name, 0) are those of the specification's example.      *)
(***************************************************************************)
Sent(name, base) ==
    <<W(name), N(base + 10), R(2 * base + 1, 2), N(base + 1024), N(base + 2), N(base + 3),
      N(base + 512), R(2 * base + 3, 2), R(2 * base + 5, 2)>>

WholeRecords ==
    {Sent(p, 0) : p \in Policies} \cup {Sent("First_Fit", 100), Sent("Next_Fit", 0)}

\* a record cut after its second field, and one whose second field is no
\* number
BrokenRecords ==
    {SubSeq(Sent("First_Fit", 0), 1, 2),
     <<W("Best_Fit"), W("ten")>> \o SubSeq(Sent("Best_Fit", 0), 3, 9)}

\* a record delivered by two read calls, cut after its k-th field
Split(r, k) == <<SubSeq(r, 1, k), SubSeq(r, k + 1, Len(r))>>

SpawnFailures == {"fork_failed", "exec_failed"}

\* the child runs and the FIFO is there: open fails, or the reads deliver
\* nothing (ending on end-of-stream or on an error), one record, or a record
\* in two parts
RunFifos ==
    {Fifo("ok", TRUE, FALSE, <<>>, FALSE), Fifo("ok", TRUE, TRUE, <<>>, FALSE),
     Fifo("ok", TRUE, TRUE, <<>>, TRUE)}
        \cup {Fifo("ok", TRUE, TRUE, <<r>>, FALSE) : r \in WholeRecords \cup BrokenRecords}
        \cup {Fifo("ok", TRUE, TRUE, Split(Sent("First_Fit", 0), k), FALSE) : k \in {1, 5}}

\* no child runs: open fails when there is no FIFO and waits when there is
NoRunFifos == {Fifo(sp, e, FALSE, <<>>, FALSE) : sp \in SpawnFailures, e \in BOOLEAN}

Fifos == RunFifos \cup NoRunFifos

\* what the stack of read_memory_metrics holds on entry: nothing that reads
\* as a record, or the bytes of an earlier call
Garbage ==
    {[buffer |-> <<>>, name |-> "", val |-> Zero],
     [buffer |-> Sent("Worst_Fit", 100), name |-> "Worst_Fit", val |-> RatInt(7)]}

NextFifo ==
    \/ \E p \in Policies : update_Fit_gauge(p, Fifos, Garbage)
    \/ LoopSteps

SpecFifo == InitWith({<<p>> : p \in Policies}, {"part_005"}) /\ [][NextFifo]_vars

\* the payload of the last call, when the pipe delivered one
Payload == last.fifo.chunks[1]

\* the eight numbers of a whole record, in the order they were written
Fields(r) ==
    [iterations |-> r[2].v, time_taken |-> r[3].v, total_allocated |-> r[4].v,
     freed_blocks |-> r[5].v, free_blocks |-> r[6].v, free_size |-> r[7].v,
     avg_fragmentation |-> r[8].v, external_fragmentation |-> r[9].v]

Delivered ==
    /\ last.fn = "read_memory_metrics"
    /\ last.fifo.opened
    /\ Len(last.fifo.chunks) = 1

\* C7: after the pipe delivered one whole record of a known policy, the slot
\* of that policy holds its eight numbers in the order of the record, the
\* other two slots are as they were, and the struct of the caller holds the
\* same numbers when the call was the one of that policy.
C7_RecordStoredInItsSlot ==
    (Delivered /\ Payload \in WholeRecords /\ Payload[1].s \in Policies)
    => /\ slots[Payload[1].s] = Fields(Payload)
       /\ \A p \in Policies \ {Payload[1].s} : slots[p] = last.before[p]
       /\ last.policy = Payload[1].s => caller[last.policy] = Fields(Payload)

\* the example record reached the First_Fit slot and the caller of
\* get_First_Fit, replacing other numbers
C7_Witness ==
    /\ Delivered
    /\ Payload = Sent("First_Fit", 0)
    /\ last.policy = "First_Fit"
    /\ last.before["First_Fit"] = Fields(Sent("First_Fit", 100))
    /\ slots["First_Fit"].iterations = RatInt(10)
    /\ slots["First_Fit"].time_taken = Rat(1, 2)
    /\ slots["First_Fit"].total_allocated = RatInt(1024)
    /\ slots["First_Fit"].freed_blocks = RatInt(2)
    /\ slots["First_Fit"].free_blocks = RatInt(3)
    /\ slots["First_Fit"].free_size = RatInt(512)
    /\ slots["First_Fit"].avg_fragmentation = Rat(3, 2)
    /\ slots["First_Fit"].external_fragmentation = Rat(5, 2)
    /\ caller["First_Fit"] = slots["First_Fit"]

\* C8: after the pipe delivered nothing, or bytes that are not the nine
\* fields of a record, the three slots are as they were before the call.
C8_MalformedRecordLeavesSlots ==
    (/\ last.fn = "read_memory_metrics"
     /\ last.fifo.opened
     /\ (last.fifo.chunks = <<>> \/ Payload \in BrokenRecords))
    => slots = last.before

\* all that the read calls delivered, in the order of delivery
RECURSIVE Concat(_)
Concat(chunks) ==
    IF chunks = <<>> THEN <<>> ELSE Head(chunks) \o Concat(Tail(chunks))

C12_SpawnFailureReturns ==
    (last.fn = "read_memory_metrics" /\ last.fifo.spawn # "ok") => pc # "open"

\* C13: after the pipe could not be opened, or a read of it failed, the three
\* slots are as they were before the call and a message was printed.
C13_PipeFailureChangesNothing ==
    (/\ last.fn = "read_memory_metrics"
     /\ ~last.blocked
     /\ (~last.fifo.opened \/ last.fifo.read_error))
    => /\ slots = last.before
       /\ last.printed

\* C20: after the pipe delivered, in more than one read, bytes that together
\* are a whole record of a known policy, the slot of that policy holds the
\* eight numbers of that record.
C20_SplitPayloadParsedWhole ==
    (/\ last.fn = "read_memory_metrics"
     /\ ~last.blocked
     /\ last.fifo.opened
     /\ Len(last.fifo.chunks) > 1
     /\ Concat(last.fifo.chunks) \in WholeRecords
     /\ Concat(last.fifo.chunks)[1].s \in Policies)
    => slots[Concat(last.fifo.chunks)[1].s] = Fields(Concat(last.fifo.chunks))

(***************************************************************************)
(* Few sources for each sampler: one that fails and two that differ; for   *)
(* /proc/stat also one that lacks the procs_running and ctxt lines.        *)
(***************************************************************************)
FewStatFiles ==
    {Unopened,
     StatFile(TRUE, <<1, 0, 0, 1, 0, 0, 0, 0>>, <<1>>, <<5>>),
     StatFile(TRUE, <<2, 0, 0, 1, 0, 0, 0, 0>>, <<2>>, <<6>>),
     StatFile(TRUE, <<2, 0, 0, 2, 0, 0, 0, 0>>, <<>>, <<>>)}

FewMemFiles ==
    {MemFile(FALSE, <<>>, <<>>), MemFile(TRUE, <<2>>, <<1>>), MemFile(TRUE, <<2>>, <<2>>)}

FewDiskFiles ==
    {[opened |-> FALSE, lines |-> <<>>],
     [opened |-> TRUE, lines |-> <<DiskLine("sda", 0)>>],
     [opened |-> TRUE, lines |-> <<DiskLine("sda", 20)>>]}

FewNetFiles ==
    {[opened |-> FALSE, lines |-> <<>>],
     [opened |-> TRUE, lines |-> NetHeaders \o <<NetLineOf("    lo", 0)>>],
     [opened |-> TRUE, lines |-> NetHeaders \o <<NetLineOf("    lo", 20)>>]}

FewFifos ==
    {Fifo("ok", TRUE, FALSE, <<>>, FALSE), Fifo("fork_failed", TRUE, FALSE, <<>>, FALSE)}
        \cup {Fifo("ok", TRUE, TRUE, <<Sent(p, 0)>>, FALSE) : p \in Policies}

FewGarbage == {[buffer |-> <<>>, name |-> "", val |-> Zero]}

(***************************************************************************)
(* The sampling thread and the exposition thread, one metric of several    *)
(* gauges enabled.                                                         *)
(***************************************************************************)
NextScrape ==
    \/ update_memory_gauge(SteadyReads(FewMemFiles))
    \/ update_disk_gauge(FewDiskFiles)
    \/ update_network_gauge(FewNetFiles)
    \/ LoopSteps
    \/ scrape_begin
    \/ scrape_read

SpecScrape ==
    InitWith({<<"memory_usage">>, <<"disk_usage">>, <<"network_usage">>}, {"main_c"})
        /\ [][NextScrape]_vars

\* C9: the values a complete pass over the gauges of a metric read are those
\* of one update: the one complete before the pass began, or one that was
\* under way or began while the pass went on.
C9_PassSeesOneUpdate == pass.metric # "" => pass.seen \in pass.whole

\* the step is a read of a gauge by the exposition thread
ReaderReads == pass' # pass \/ Len(scrape'.seen) > Len(scrape.seen)

\* the step is a call of a sampler: the reading of a source
SamplerReads == last' # last

\* C22: every step that writes a gauge is taken with the lock held by the
\* sampling thread, every step in which the exposition thread reads a gauge is
\* taken with the lock held for that thread, and every step in which a
\* sampler reads its source is taken with the lock free.
C22_GaugeAccessUnderLock ==
    [][/\ gauges' # gauges => lock = "sampler"
       /\ ReaderReads => lock = "reader"
       /\ SamplerReads => lock = "free"]_vars

(***************************************************************************)
(* The whole loop: up to MaxEnabled different names in the configuration,  *)
(* among them one no branch knows, in either build.                        *)
(***************************************************************************)
ConfigNames == MetricNames \cup {"unknown_metric"}

Configs ==
    UNION {{c \in [1..n -> ConfigNames] : \A a, b \in 1..n : a # b => c[a] # c[b]} :
              n \in 1..MaxEnabled}

Next ==
    \/ update_cpu_gauge(FewStatFiles)
    \/ update_memory_gauge(SteadyReads(FewMemFiles))
    \/ update_disk_gauge(FewDiskFiles)
    \/ update_network_gauge(FewNetFiles)
    \/ update_proccess_gauge(FewStatFiles)
    \/ update_context_switches_gauge(FewStatFiles)
    \/ \E p \in Policies : update_Fit_gauge(p, FewFifos, FewGarbage)
    \/ update_metrics_skip
    \/ LoopSteps

Spec == InitWith(Configs, {"main_c", "part_005"}) /\ [][Next]_vars

(***************************************************************************)
(* The program from the entry of main: any configuration file of up to     *)
(* MaxEnabled items, any one failing call in init_metrics, either result   *)
(* of pthread_create, then the loop.                                       *)
(***************************************************************************)
ConfigItems == {W("cpu_usage"), W("running_processes"), W("unknown_metric"), N(5)}

ItemLists == UNION {[1..n -> ConfigItems] : n \in 0..MaxEnabled}

ConfigFiles ==
    {ConfigFile(FALSE, FALSE, FALSE, FALSE, <<>>), ConfigFile(TRUE, FALSE, FALSE, FALSE, <<>>),
     ConfigFile(TRUE, TRUE, FALSE, FALSE, <<>>), ConfigFile(TRUE, TRUE, TRUE, FALSE, <<>>)}
        \cup {ConfigFile(TRUE, TRUE, TRUE, TRUE, e) : e \in ItemLists}

InitOutcomes == FailsBeforeLoop \cup {"prom_collector_registry_must_register_metric", "none"}

NextStart ==
    \/ main_load_config(ConfigFiles)
    \/ main_init_metrics(InitOutcomes)
    \/ pthread_create(BOOLEAN)
    \/ strcmp_null
    \/ update_cpu_gauge(FewStatFiles)
    \/ update_proccess_gauge(FewStatFiles)
    \/ update_metrics_skip
    \/ LoopSteps

SpecStart == InitStart({"main_c", "part_005"}) /\ [][NextStart]_vars

\* C14: whatever the configuration file holds, the process does not end in
\* load_config, init_metrics or update_metrics, and every update called in a
\* cycle is the one of a recognised name of the list.
C14_AnyListIsSafe ==
    /\ pc # "crashed"
    /\ \A k \in 1..Len(log) : log[k].fn # "none" => log[k].name \in MetricNames

\* C15: after init_metrics returned failure the exposition thread is not
\* started and no update function is called.
C15_FailedInitExits ==
    init_ret = "EXIT_FAILURE" => (tid = "none" /\ last.fn = "init_metrics")

\* C23: after get_context_switches read a source that opens and has no ctxt
\* line, it returned -1 and the context_switches gauge holds the value of the
\* last update that completed.
C23_MissingCtxtLineIsError ==
    (/\ last.fn = "get_context_switches"
     /\ last.file.opened
     /\ last.file.ctxt = <<>>)
    => /\ last.code = -1
       /\ Stale("context_switches")

(***************************************************************************)
(* The memory sampler with a /proc/meminfo that changes once between the   *)
(* six fopen calls of one update_memory_gauge, or not at all.              *)
(***************************************************************************)
ChangingReads(files) ==
    {[k \in 1..MemoryReads |-> IF k <= c THEN f ELSE g] :
        f \in files, g \in files, c \in 1..MemoryReads}

NextMemRace ==
    \/ update_memory_gauge(ChangingReads(FewMemFiles))
    \/ LoopSteps

SpecMemRace == InitWith({<<"memory_usage">>}, {"main_c"}) /\ [][NextMemRace]_vars

\* C28: once an update_memory_gauge that found no negative value has
\* released the lock, the used gauge is the total gauge minus the available
\* gauge, and the usage gauge is the used gauge over the total gauge, times
\* 100.
C28_MemoryGaugesConsistent ==
    (/\ last.fn = "get_memory_usage"
     /\ \A k \in 1..5 : RatGe0(last.vals[k])
     /\ pc \in {"dispatch", "sleep"})
    => /\ MemGauge(3) = RatSub(MemGauge(2), MemGauge(4))
       /\ MemGauge(1) = RatMul(RatDiv(MemGauge(3), MemGauge(2)), Hundred)

\* the gauges of the k-th name of the cycle hold the values its update read
Updated(k) ==
    \A j \in 1..Len(log[k].vals) : gauges[GaugesOf(log[k].name)[j]] = log[k].vals[j]

C11_FailedUpdateWritesNothing ==
    \A k \in 1..Len(log) :
        (~log[k].ok /\ log[k].fn # "none") => Stale(log[k].name)

\* a cycle is over in which the sampler of a metric failed whose gauges an
\* earlier cycle had set: they still hold those values
C11_Witness ==
    /\ pc = "sleep"
    /\ \E k \in 1..Len(log) :
         /\ ~log[k].ok
         /\ log[k].fn # "none"
         /\ committed[log[k].name] # ZeroTuple(log[k].name)
         /\ Stale(log[k].name)

\* C24: the names visited so far in the cycle are the first ones of the
\* configuration, in its order; between two updates, and during the sleep,
\* no prom_gauge_set is left to do and the lock is free, so an update has
\* finished before the next sampler is called; the sets left to do in an
\* update under way are those of the name the loop is at; and the sleep is
\* reached only with every name visited.
C24_SamplersRunInOrder ==
    /\ \A k \in 1..Len(log) : k <= Len(config) /\ log[k].name = config[k]
    /\ pc \in {"dispatch", "open"} => (Len(log) = i - 1 /\ pending = <<>> /\ lock = "free")
    /\ pc \in {"lock", "set"}
       => /\ Len(log) = i
          /\ \A j \in 1..Len(pending) :
               \E g \in 1..Len(GaugesOf(config[i])) : pending[j][1] = GaugesOf(config[i])[g]
    /\ pc = "sleep"
       => (i = Len(config) + 1 /\ Len(log) = Len(config) /\ pending = <<>> /\ lock = "free")

\* C24 witness: the update of the second name is under way and the gauges
\* of the first name hold what its update read.
C24_Witness ==
    /\ pc = "set"
    /\ i = 2
    /\ pending # <<>>
    /\ Len(log) = 2
    /\ log[1].ok
    /\ Updated(1)
    /\ log[1].vals # ZeroTuple(log[1].name)

\* the names of the configuration
Enabled == {config[k] : k \in 1..Len(config)}

\* every name of the cycle's configuration that init_metrics registers
\* gauges for had its update called
SampledInCycle ==
    \A k \in 1..Len(config) :
        config[k] \in MetricNames => (log[k].name = config[k] /\ log[k].fn # "none")

\* the gauges of the names that are not in the configuration were never set
OnlyEnabledUpdated ==
    \A m \in MetricNames \ Enabled :
        \A j \in 1..Len(GaugesOf(m)) : gauges[GaugesOf(m)[j]] = Zero

\* C29: when update_metrics has returned, the update of every name of the
\* configuration among the nine that init_metrics registers gauges for was
\* called in the cycle, and at no time was a gauge set for a name that is
\* not in the configuration.
C29_RegisteredNamesAreSampled ==
    /\ pc = "sleep" => SampledInCycle
    /\ OnlyEnabledUpdated

\* C26: the sampling thread holds the lock exactly while it is between the
\* pthread_mutex_lock and the pthread_mutex_unlock of an update: the lock is
\* free when the thread is about to take it, when update_metrics is between
\* two updates or calls a sampler, when a sampler waits or the process ended
\* in one, and when the loop sleeps.
C26_LockHeldOnlyWhileSetting ==
    /\ [](lock \in {"free", "sampler"} /\ (lock = "sampler" <=> pc = "set"))
    /\ [][SamplerReads => (lock = "free" /\ lock' = "free")]_vars

\* C26 witness: the loop sleeps with the lock free after a cycle in which an
\* update took and released it.
C26_Witness ==
    /\ pc = "sleep"
    /\ lock = "free"
    /\ \E k \in 1..Len(log) : log[k].ok /\ Updated(k) /\ log[k].vals # ZeroTuple(log[k].name)

(***************************************************************************)
(* The whole loop with a thread that is scheduled: a step the sampling     *)
(* thread can take is taken in the end.  Every step of the thread changes  *)
(* its position, its index or the sets it has left to do.                  *)
(***************************************************************************)
SpecFair == Spec /\ WF_<<pc, i, pending>>(Next)

\* a call of the sampling thread did not return: it waits in the open of the
\* pipe, or the process ended in it
NoReturn == pc \in {"open", "crashed"}

\* C25: unless a call does not return, a cycle starts again and again, and
\* in cycle after cycle every name of the configuration is visited, whatever
\* its sampler and the others' returned before.
C25_LoopNeverStops ==
    \/ <>NoReturn
    \/ /\ []<>(pc = "dispatch" /\ i = 1 /\ log = <<>>)
       /\ []<>(pc = "sleep" /\ Len(log) = Len(config))

\* C25 witness: a cycle has started after one in which a sampler failed.
C25_Witness ==
    /\ pc = "dispatch"
    /\ i = 1
    /\ log = <<>>
    /\ last.fn \in {"get_cpu_usage", "get_running_processes", "get_context_switches"}
    /\ (IF last.fn = "get_cpu_usage" THEN last.ret = ErrVal ELSE last.code = -1)

====
